---- MODULE Spec2Model ----
(***************************************************************************)
(* Order total / delivery cost / payment settlement pipeline of the shop   *)
(* backend (orders/models.py, orders/views.py, payments/views.py,          *)
(* payments/serializers.py).                                               *)
(*                                                                         *)
(* Database tables are sequences of rows, a row's primary key being its    *)
(* index.  Money is a whole number of currency units.  A text is the       *)
(* sequence of its characters, so that isdigit, len, int and endswith are  *)
(* computed on the characters; a character outside ASCII is written by its *)
(* code point.                                                             *)
(***************************************************************************)
EXTENDS Integers, Sequences, FiniteSets, TLC

VARIABLES
    orders,     \* table orders_order: rows of Order
    orderItems, \* table orders_orderitem: rows of OrderItem
    payments,   \* table payments_payment: rows of Payment
    settings,   \* table orders_deliverysettings: << >> or << the row with pk 1 >>
    runs,       \* runs[p]: the process_payment task submitted for payment p
    clock,      \* timezone.now()
    resp,       \* the response of the last request handled
    products,   \* table catalog_product: rows of Product
    sales,      \* table catalog_sale: rows of Sale
    today,      \* date.today(), a day number
    calls       \* calls[w]: the call that worker w is in the middle of

vars == <<orders, orderItems, payments, settings, runs, clock, resp,
          products, sales, today, calls>>

(***************************************************************************)
(* Bounds of the model.                                                    *)
(***************************************************************************)
MaxPayments == 2
MaxReruns == 1

(***************************************************************************)
(* Texts.                                                                  *)
(***************************************************************************)
AsciiDigit == {"0", "1", "2", "3", "4", "5", "6", "7", "8", "9"}

\* ARABIC-INDIC DIGIT ZERO, ONE, TWO: decimal digits (category Nd) outside ASCII
ArabicIndicDigit == {"U+0660", "U+0661", "U+0662"}

\* SUPERSCRIPT TWO: a digit for str.isdigit() that is not a decimal digit
SuperscriptDigit == {"U+00B2"}

\* the value of a decimal digit
DigitVal(c) ==
    CASE c \in {"0", "U+0660"} -> 0 [] c \in {"1", "U+0661"} -> 1
      [] c \in {"2", "U+0662"} -> 2 [] c = "3" -> 3
      [] c = "4" -> 4 [] c = "5" -> 5 [] c = "6" -> 6 [] c = "7" -> 7
      [] c = "8" -> 8 [] c = "9" -> 9

\* str.isdigit(): at least one character, and every character a digit
isdigit(s) ==
    /\ Len(s) > 0
    /\ \A i \in 1..Len(s) : s[i] \in AsciiDigit \cup ArabicIndicDigit \cup SuperscriptDigit

\* int(s) raises ValueError: s is not a text of decimal digits
int_raises(s) ==
    \/ Len(s) = 0
    \/ \E i \in 1..Len(s) : s[i] \notin AsciiDigit \cup ArabicIndicDigit

\* int(s) of a text of decimal digits
RECURSIVE int(_)
int(s) ==
    IF Len(s) = 0 THEN 0
    ELSE 10 * int(SubSeq(s, 1, Len(s) - 1)) + DigitVal(s[Len(s)])

\* s.endswith("0")
endswith0(s) == Len(s) > 0 /\ s[Len(s)] = "0"

\* The account/card numbers a request may carry.
Numbers ==
    { <<"1","2","3","4","5","6","7","8">>,          \* even, ends in 8
      <<"1","2","3","4","5","6","7","0">>,          \* even, ends in 0
      <<"1","3">>,                                  \* odd
      <<"1","2","3","4","5","6","7","8","8">>,      \* nine digits, even
      <<"1","2","a","4">>,                          \* not digits only
      <<"U+0661","U+0660">>,                        \* ten in Arabic-Indic digits
      <<"U+00B2">>,                                 \* superscript two
      << >> }                                       \* blank

(***************************************************************************)
(* Values of the fields.                                                   *)
(***************************************************************************)
None == "None"          \* a null owner or a null text
NoTime == 0             \* a null timestamp; the clock starts at 1

Users == {"u1", "u2"}
Callers == {"anon"} \cup Users      \* request.user: unauthenticated, or a user

\* unauthenticated callers told apart by the session cookie of their requests
Sessions == {"session1", "session2"}

\* request.user as the views test it: None for every caller that is not
\* authenticated, whatever its session
request_user(caller) == IF caller \in {"anon"} \cup Sessions THEN None ELSE caller

OrderStatuses == {"pending", "processing", "accepted", "completed", "canceled"}

\* process_payment's list `errors`, the pool random.choice draws from
DeclineReasons ==
    { "insufficient_funds", "card_blocked", "limit_exceeded",
      "suspicious_operation", "payment_system_error" }

TechnicalError == "technical_error"     \* the message of the except branch
SubmitError == "submit_error"           \* the message when the pool refuses the task

(***************************************************************************)
(* payments/serializers.py                                                 *)
(***************************************************************************)
\* PaymentCreateSerializer.validate_number, RandomPaymentCreateSerializer.validate_number:
\* "ok" for `return value`, the ValidationError raised, or the ValueError of int(value)
validate_number(value) ==
    IF ~isdigit(value) THEN "not_digits"
    ELSE IF Len(value) > 8 THEN "too_long"
    ELSE IF int_raises(value) THEN "ValueError"
    ELSE IF int(value) % 2 # 0 THEN "odd"
    ELSE "ok"

\* serializers.CharField(max_length=n): a required, non-blank text of at most n
\* characters (the numbers drawn carry no surrounding whitespace to strip)
CharField(value, max_length) ==
    IF Len(value) = 0 THEN "blank"
    ELSE IF Len(value) > max_length THEN "max_length"
    ELSE "ok"

\* the fields of a serializer in turn, number first: "valid", "errors" when
\* is_valid() returns False, "ValueError" when validate_number lets one escape
validate_fields(number, max_length, fieldsOk) ==
    IF CharField(number, max_length) # "ok" THEN "errors"
    ELSE IF validate_number(number) = "ValueError" THEN "ValueError"
    ELSE IF validate_number(number) # "ok" \/ ~fieldsOk THEN "errors"
    ELSE "valid"

\* PaymentCreateSerializer(data).is_valid(); fieldsOk: name, month, year, code and
\* payment_type pass their own CharField checks
PaymentCreateSerializer(number, fieldsOk) == validate_fields(number, 20, fieldsOk)

\* RandomPaymentCreateSerializer(data).is_valid()
RandomPaymentCreateSerializer(number) == validate_fields(number, 8, TRUE)

(***************************************************************************)
(* Queries.                                                                *)
(***************************************************************************)
\* get_object_or_404 without the filters user and is_active
get_order_by_key(caller, order_id) ==
    IF order_id \in 1..Len(orders) THEN order_id ELSE 0

\* get_object_or_404(Order, pk=order_id, user=request.user or None, is_active=True):
\* the order's key, or 0 for Http404
get_order_or_404(caller, order_id) ==
    IF /\ order_id \in 1..Len(orders)
       /\ orders[order_id].user = request_user(caller)
       /\ orders[order_id].is_active
    THEN order_id ELSE 0

\* order.payments: the keys of the order's payments
PaymentsOf(o) == {p \in 1..Len(payments) : payments[p].order = o}

\* order.payments.order_by("-created_at").first(): the key, or 0 for None
last_payment(o) ==
    IF PaymentsOf(o) = {} THEN 0
    ELSE CHOOSE p \in PaymentsOf(o) :
            \A q \in PaymentsOf(o) : payments[q].created_at <= payments[p].created_at

\* the test of payment / payment_someone that answers "order already paid"
already_paid(o) ==
    /\ orders[o].status \notin {"accepted", "pending"}
    /\ last_payment(o) # 0
    /\ payments[last_payment(o)].status = "success"

(***************************************************************************)
(* payments/views.py: the request handlers payment and payment_someone.    *)
(***************************************************************************)
\* what a handler answered: the view, the order_id of the URL, the number the
\* serializer was given (<< >> when the request did not get that far), the HTTP
\* status and the error reported
Response(op, order_id, number, code, error) ==
    [op |-> op, order |-> order_id, number |-> number, code |-> code, error |-> error]

\* Payment.objects.create(order=order, payment_type=..., number=number, status="pending")
NewPayment(o, payment_type, number) ==
    [ order |-> o, payment_type |-> payment_type, number |-> number,
      status |-> "pending", error_message |-> None,
      created_at |-> clock, processed_at |-> NoTime ]

\* the task of a payment: its position in process_payment, the Payment and the
\* Order objects it holds (<< >> before they are read), whether its main try
\* block raised, and how many times process_payment was started for the payment
NewRun(pc) ==
    [pc |-> pc, payment |-> << >>, order |-> << >>, raised |-> FALSE, n |-> 1]

\* What submit_payment_for_processing meets: payment_executor.submit returns a
\* future ("submitted"); or it raises and the except branch marks the payment
\* failed ("refused"); or that branch's read or save raises as well ("lost").
SubmitOutcomes == {"submitted", "refused", "lost"}

\* create_and_submit with the except branch of submit_payment_for_processing
\* run although the pool took the task
create_and_mark_failed(op, o, payment_type, number, outcome) ==
    LET row == NewPayment(o, payment_type, number)
        failed == [row EXCEPT !.status = "failed", !.error_message = SubmitError,
                              !.processed_at = clock]
    IN  /\ Len(payments) < MaxPayments
        /\ payments' = Append(payments, IF outcome = "lost" THEN row ELSE failed)
        /\ runs' = Append(runs, NewRun(IF outcome = "submitted" THEN "queued" ELSE "none"))
        /\ clock' = clock + 1
        /\ resp' = Response(op, o, number, 200, "none")
        /\ UNCHANGED <<orders, orderItems, settings, products, sales, today, calls>>

\* The part of both handlers after the serializer: create the Payment and call
\* submit_payment_for_processing.
create_and_submit(op, o, payment_type, number, outcome) ==
    LET row == NewPayment(o, payment_type, number)
        failed == [row EXCEPT !.status = "failed", !.error_message = SubmitError,
                              !.processed_at = clock]
    IN  /\ Len(payments) < MaxPayments
        /\ payments' = Append(payments, IF outcome = "refused" THEN failed ELSE row)
        /\ runs' = Append(runs, NewRun(IF outcome = "submitted" THEN "queued" ELSE "none"))
        /\ clock' = clock + 1
        /\ resp' = Response(op, o, number, 200, "none")
        /\ UNCHANGED <<orders, orderItems, settings, products, sales, today, calls>>

\* the handlers' answers that change nothing
Reject(op, order_id, number, code, error) ==
    /\ resp' = Response(op, order_id, number, code, error)
    /\ UNCHANGED <<orders, orderItems, payments, settings, runs, clock, products, sales, today, calls>>

\* payment with the "order already paid" test left out
payment_no_paid_check(caller, order_id, number) ==
    LET o == get_order_or_404(caller, order_id) IN
    IF o = 0 THEN Reject("payment", order_id, << >>, 404, "not_found")
    ELSE \E fieldsOk \in BOOLEAN :
           IF PaymentCreateSerializer(number, fieldsOk) = "ValueError"
           THEN Reject("payment", order_id, number, 500, "ValueError")
           ELSE IF PaymentCreateSerializer(number, fieldsOk) = "errors"
           THEN Reject("payment", order_id, number, 400, "validation")
           ELSE \E outcome \in SubmitOutcomes :
                  create_and_submit("payment", o, "card", number, outcome)

\* payment(request, order_id): payment by card.  fieldsOk: the fields name, month,
\* year, code and payment_type of the request pass; outcome: what
\* submit_payment_for_processing meets.
payment(caller, order_id, number) ==
    LET o == get_order_or_404(caller, order_id) IN
    IF o = 0 THEN Reject("payment", order_id, << >>, 404, "not_found")
    ELSE IF already_paid(o) THEN Reject("payment", order_id, << >>, 400, "already_paid")
    ELSE \E fieldsOk \in BOOLEAN :
           IF PaymentCreateSerializer(number, fieldsOk) = "ValueError"
           THEN Reject("payment", order_id, number, 500, "ValueError")
           ELSE IF PaymentCreateSerializer(number, fieldsOk) = "errors"
           THEN Reject("payment", order_id, number, 400, "validation")
           ELSE \E outcome \in SubmitOutcomes :
                  create_and_submit("payment", o, "card", number, outcome)

\* payment_someone(request, order_id): payment from a third-party account
payment_someone(caller, order_id, number) ==
    LET o == get_order_or_404(caller, order_id) IN
    IF o = 0 THEN Reject("payment_someone", order_id, << >>, 404, "not_found")
    ELSE IF already_paid(o) THEN Reject("payment_someone", order_id, << >>, 400, "already_paid")
    ELSE IF RandomPaymentCreateSerializer(number) = "ValueError"
    THEN Reject("payment_someone", order_id, number, 500, "ValueError")
    ELSE IF RandomPaymentCreateSerializer(number) = "errors"
    THEN Reject("payment_someone", order_id, number, 400, "validation")
    ELSE \E outcome \in SubmitOutcomes :
           create_and_submit("payment_someone", o, "someone", number, outcome)

(***************************************************************************)
(* payments/views.py: process_payment, run by a worker of payment_executor.*)
(* Its steps are its database accesses; every access either completes or   *)
(* raises.                                                                 *)
(***************************************************************************)
Pc(p) == runs[p].pc

Goto(p, pc) == runs' = [runs EXCEPT ![p].pc = pc]

\* int(number) % 2 == 0 and not number.endswith("0")
succeeds(number) == int(number) % 2 = 0 /\ ~endswith0(number)

\* process_payment's first read without the test that the payment is still pending
load_payment_unguarded(p) ==
    /\ Pc(p) = "queued"
    /\ \/ runs' = [runs EXCEPT ![p].pc = "loaded", ![p].payment = <<payments[p]>>]
       \/ runs' = [runs EXCEPT ![p].pc = "except", ![p].raised = TRUE]
    /\ UNCHANGED <<orders, orderItems, payments, settings, clock, resp, products, sales, today, calls>>

\* lines 69-83: payment = Payment.objects.get(id=payment_id), return unless pending
load_payment(p) ==
    /\ Pc(p) = "queued"
    /\ \/ /\ payments[p].status = "pending"
          /\ runs' = [runs EXCEPT ![p].pc = "loaded", ![p].payment = <<payments[p]>>]
       \/ /\ payments[p].status # "pending"
          /\ Goto(p, "done")
       \/ runs' = [runs EXCEPT ![p].pc = "except", ![p].raised = TRUE]
    /\ UNCHANGED <<orders, orderItems, payments, settings, clock, resp, products, sales, today, calls>>

\* lines 85-111: the outcome rule on the object read, processed_at, payment.save()
save_payment(p) ==
    /\ Pc(p) = "loaded"
    /\ LET held == runs[p].payment[1] IN
       \/ /\ ~int_raises(held.number)
          /\ succeeds(held.number)
          /\ LET saved == [held EXCEPT !.status = "success", !.processed_at = clock]
             IN  /\ payments' = [payments EXCEPT ![p] = saved]
                 /\ runs' = [runs EXCEPT ![p].pc = "saved", ![p].payment = <<saved>>]
          /\ clock' = clock + 1
       \/ /\ ~int_raises(held.number)
          /\ ~succeeds(held.number)
          /\ \E reason \in DeclineReasons :
               LET saved == [held EXCEPT !.status = "failed",
                                            !.error_message = reason,
                                            !.processed_at = clock]
               IN  /\ payments' = [payments EXCEPT ![p] = saved]
                   /\ runs' = [runs EXCEPT ![p].pc = "done", ![p].payment = <<saved>>]
          /\ clock' = clock + 1
       \/ \* int(number) or payment.save() raises
          /\ runs' = [runs EXCEPT ![p].pc = "except", ![p].raised = TRUE]
          /\ UNCHANGED <<payments, clock>>
    /\ UNCHANGED <<orders, orderItems, settings, resp, products, sales, today, calls>>

\* the order update without the test of the order's status
load_order_any_status(p) ==
    /\ Pc(p) = "saved"
    /\ LET order == orders[runs[p].payment[1].order] IN
       runs' = [runs EXCEPT ![p].pc = "order_loaded",
                            ![p].order = <<[order EXCEPT !.status = "processing"]>>]
    /\ UNCHANGED <<orders, orderItems, payments, settings, clock, resp, products, sales, today, calls>>

\* lines 114-121: on success, order = payment.order and the test of its status
load_order(p) ==
    /\ Pc(p) = "saved"
    /\ LET order == orders[runs[p].payment[1].order] IN
       \/ /\ order.status \in {"accepted", "pending"}
          /\ runs' = [runs EXCEPT ![p].pc = "order_loaded",
                                   ![p].order = <<[order EXCEPT !.status = "processing"]>>]
       \/ /\ order.status \notin {"accepted", "pending"}
          /\ runs' = [runs EXCEPT ![p].pc = "done", ![p].order = <<order>>]
       \/ Goto(p, "done")     \* the read raises: logged at lines 130-133
    /\ UNCHANGED <<orders, orderItems, payments, settings, clock, resp, products, sales, today, calls>>

\* line 122: order.save(), a write of every field of the object held
save_order(p) ==
    /\ Pc(p) = "order_loaded"
    /\ \/ orders' = [orders EXCEPT ![runs[p].payment[1].order] = runs[p].order[1]]
       \/ UNCHANGED orders    \* the save raises: logged at lines 130-133
    /\ Goto(p, "done")
    /\ UNCHANGED <<orderItems, payments, settings, clock, resp, products, sales, today, calls>>

\* the except branch setting the status alone
handle_exception_status_only(p) ==
    /\ Pc(p) = "except"
    /\ \/ /\ payments[p].status = "pending"
          /\ payments' = [payments EXCEPT ![p].status = "failed"]
          /\ clock' = clock + 1
       \/ /\ payments[p].status # "pending"
          /\ UNCHANGED <<payments, clock>>
       \/ UNCHANGED <<payments, clock>>
    /\ Goto(p, "done")
    /\ UNCHANGED <<orders, orderItems, settings, resp, products, sales, today, calls>>

\* lines 139-158: the except branch of process_payment
handle_exception(p) ==
    /\ Pc(p) = "except"
    /\ \/ /\ payments[p].status = "pending"
          /\ payments' = [payments EXCEPT ![p].status = "failed",
                                          ![p].error_message = TechnicalError,
                                          ![p].processed_at = clock]
          /\ clock' = clock + 1
       \/ /\ payments[p].status # "pending"
          /\ UNCHANGED <<payments, clock>>
       \/ UNCHANGED <<payments, clock>>   \* the read or the save raises: lines 155-158
    /\ Goto(p, "done")
    /\ UNCHANGED <<orders, orderItems, settings, resp, products, sales, today, calls>>

\* process_payment(payment_id) called once more after its run has ended
process_payment_again(p) ==
    /\ Pc(p) = "done"
    /\ runs[p].n <= MaxReruns
    /\ runs' = [runs EXCEPT ![p] = [NewRun("queued") EXCEPT !.n = runs[p].n + 1]]
    /\ UNCHANGED <<orders, orderItems, payments, settings, clock, resp, products, sales, today, calls>>

(***************************************************************************)
(* orders/models.py: DeliverySettings and the totals of an Order.          *)
(* A number carries its Python type: the sum of a Decimal and a float      *)
(* raises TypeError, while their comparison is defined.                    *)
(***************************************************************************)
Num(v, t) == [v |-> v, t |-> t]

\* the field defaults of DeliverySettings and the defaults get_settings passes
DefaultExpressCost == 500
DefaultFreeThreshold == 2000
DefaultRegularCost == 200

SettingsRow(express, threshold, regular) ==
    [ express_delivery_cost |-> express, free_delivery_threshold |-> threshold,
      regular_delivery_cost |-> regular ]

DefaultSettings ==
    SettingsRow(DefaultExpressCost, DefaultFreeThreshold, DefaultRegularCost)

\* DeliverySettings.get_settings(): the object returned.  The row read from the
\* table holds Decimals; the object get_or_create has just built from the
\* defaults 500.00, 2000.00, 200.00 holds those floats.
get_settings ==
    IF settings # << >> THEN [row |-> settings[1], t |-> "Decimal"]
    ELSE [row |-> DefaultSettings, t |-> "float"]

\* the table after get_settings(): the row is created when it was missing
settings_after_get == IF settings # << >> THEN settings ELSE << DefaultSettings >>

\* order.products: the keys of the order's line items
ItemsOf(o) == {i \in 1..Len(orderItems) : orderItems[i].order = o}

RECURSIVE SumOver(_, _)
SumOver(rows, keys) ==
    IF keys = {} THEN 0
    ELSE LET i == CHOOSE k \in keys : TRUE
         IN  rows[i].price * rows[i].count + SumOver(rows, keys \ {i})

\* _get_products_total looking the prices up in the catalog instead of the line items
RECURSIVE LiveSumOver(_)
LiveSumOver(keys) ==
    IF keys = {} THEN 0
    ELSE LET i == CHOOSE k \in keys : TRUE
             covering == { k \in 1..Len(sales) :
                             /\ sales[k].product = orderItems[i].product
                             /\ sales[k].is_active
                             /\ sales[k].dateFrom <= today /\ today <= sales[k].dateTo }
             live == IF covering = {} THEN products[orderItems[i].product].price
                     ELSE sales[CHOOSE k \in covering : TRUE].salePrice
         IN  live * orderItems[i].count + LiveSumOver(keys \ {i})

products_total_live(o) ==
    IF ItemsOf(o) = {} THEN Num(0, "int")
    ELSE Num(LiveSumOver(ItemsOf(o)), "Decimal")

\* Order._get_products_total() of an object that has no cached total:
\* products.aggregate(total=Sum(F("price") * F("count")))["total"] or 0
products_total(o) ==
    IF ItemsOf(o) = {} THEN Num(0, "int")
    ELSE LET total == SumOver(orderItems, ItemsOf(o))
         IN  IF total = 0 THEN Num(0, "int") ELSE Num(total, "Decimal")

\* calculate_delivery_cost charging the regular cost up to and including the threshold
delivery_cost_inclusive(deliveryType, total, cfg) ==
    IF deliveryType = "express" THEN Num(cfg.row.express_delivery_cost, cfg.t)
    ELSE IF deliveryType = "ordinary"
    THEN IF total.v <= cfg.row.free_delivery_threshold
         THEN Num(cfg.row.regular_delivery_cost, cfg.t)
         ELSE Num(0, "int")
    ELSE Num(0, "int")

\* Order.calculate_delivery_cost(products_total) with settings = cfg
calculate_delivery_cost(deliveryType, total, cfg) ==
    IF deliveryType = "express" THEN Num(cfg.row.express_delivery_cost, cfg.t)
    ELSE IF deliveryType = "ordinary"
    THEN IF total.v < cfg.row.free_delivery_threshold
         THEN Num(cfg.row.regular_delivery_cost, cfg.t)
         ELSE Num(0, "int")
    ELSE Num(0, "int")

\* a + b of Python: TypeError for a Decimal and a float
Add(a, b) ==
    IF {a.t, b.t} = {"Decimal", "float"} THEN Num(0, "TypeError")
    ELSE Num(a.v + b.v,
             IF "Decimal" \in {a.t, b.t} THEN "Decimal"
             ELSE IF "float" \in {a.t, b.t} THEN "float" ELSE "int")

\* get_total_cost_with_delivery returning the products total alone
total_without_delivery(o, deliveryType, cfg) == products_total(o)

\* Order.get_total_cost_with_delivery() of the object with the given delivery type
get_total_cost_with_delivery(o, deliveryType, cfg) ==
    Add(products_total(o), calculate_delivery_cost(deliveryType, products_total(o), cfg))

(***************************************************************************)
(* orders/views.py: order_view and delivery_settings; orders/admin.py.     *)
(***************************************************************************)
DeliveryInputs == {"ordinary", "express", "pickup"}   \* data.get("deliveryType", "ordinary")
PaymentInputs == {"online", "someone"}                \* data.get("paymentType", "online")
ContactInputs == {"", "filled"}     \* fullName, email, phone, city, address, comment

\* order_view, POST: the checkout of the order
order_view_post(caller, order_id, deliveryType, paymentType, contact) ==
    LET o == get_order_or_404(caller, order_id)
        cfg == get_settings
        total == get_total_cost_with_delivery(o, deliveryType, cfg)
    IN  IF o = 0
        THEN /\ resp' = Response("order_post", order_id, << >>, 404, "not_found")
             /\ UNCHANGED <<orders, orderItems, payments, settings, runs, clock, products, sales, today, calls>>
        ELSE IF total.t = "TypeError"
        THEN /\ resp' = Response("order_post", order_id, << >>, 500, "TypeError")
             /\ settings' = settings_after_get
             /\ UNCHANGED <<orders, orderItems, payments, runs, clock, products, sales, today, calls>>
        ELSE /\ orders' = [orders EXCEPT ![o].contact = contact,
                                          ![o].deliveryType = deliveryType,
                                          ![o].paymentType = paymentType,
                                          ![o].totalCost = total.v,
                                          ![o].status = "accepted"]
             /\ settings' = settings_after_get
             /\ resp' = Response("order_post", order_id, << >>, 200, "none")
             /\ UNCHANGED <<orderItems, payments, runs, clock, products, sales, today, calls>>

\* order_view, GET: OrderSerializer(order).data, of which status, deliveryType,
\* totalCost and deliveryCost = float(obj.calculate_delivery_cost())
order_view_get(caller, order_id) ==
    LET o == get_order_or_404(caller, order_id) IN
    IF o = 0
    THEN /\ resp' = Response("order_get", order_id, << >>, 404, "not_found")
         /\ UNCHANGED <<orders, orderItems, payments, settings, runs, clock, products, sales, today, calls>>
    ELSE /\ resp' = [ op |-> "order_get", order |-> order_id, number |-> << >>,
                      code |-> 200, error |-> "none",
                      status |-> orders[o].status,
                      deliveryType |-> orders[o].deliveryType,
                      totalCost |-> orders[o].totalCost,
                      deliveryCost |->
                          calculate_delivery_cost(orders[o].deliveryType,
                                                  products_total(o), get_settings).v ]
         /\ settings' = settings_after_get
         /\ UNCHANGED <<orders, orderItems, payments, runs, clock, products, sales, today, calls>>

\* delivery_settings(request): the three values, the row created when missing
delivery_settings ==
    /\ settings' = settings_after_get
    /\ resp' = Response("delivery_settings", 0, << >>, 200, "none")
    /\ UNCHANGED <<orders, orderItems, payments, runs, clock, products, sales, today, calls>>

\* the values an administrator may enter in the form of DeliverySettingsAdmin
SettingsInputs ==
    { DefaultSettings, SettingsRow(700, 2500, 300), SettingsRow(500, 2501, 0) }

\* DeliverySettingsAdmin: the add form (allowed while the table is empty) and the
\* change form, both through DeliverySettings.save() with pk = 1
admin_save_settings(row) ==
    /\ settings' = << row >>
    /\ UNCHANGED <<orders, orderItems, payments, runs, clock, resp, products, sales, today, calls>>

(***************************************************************************)
(* The payment engine: one stored order, in any state an order can have,   *)
(* requests of any caller for it, and the settlement tasks.                *)
(***************************************************************************)
\* the rows of an order and of its line item as orders() and order_view() leave them
StoredOrder(user, is_active, status) ==
    [ user |-> user, is_active |-> is_active, status |-> status,
      deliveryType |-> "ordinary", paymentType |-> "online",
      contact |-> "", totalCost |-> 2000 ]

StoredItem(o) == [order |-> o, product |-> 1, price |-> 1000, count |-> 2]

NoResponse == Response("none", 0, << >>, 0, "none")

\* the requests served at the same time, one per worker
Workers == {"w1", "w2"}

\* no call in progress
Idle == [pc |-> "idle"]

\* a row of Product: price, is_active and purchases_count
StoredProduct(price, is_active) ==
    [price |-> price, is_active |-> is_active, purchases_count |-> 0]

\* the catalog of the specifications that do not touch it: the product of the
\* stored line item, no sale, and no call in progress
CatalogAtRest ==
    /\ products = << StoredProduct(1000, TRUE) >>
    /\ sales = << >>
    /\ today = 1
    /\ calls = [w \in Workers |-> Idle]

Init ==
    /\ \/ \E status \in OrderStatuses \ {"processing"} :
             orders = << StoredOrder(None, TRUE, status) >>
       \/ orders = << StoredOrder("u1", TRUE, "accepted") >>
       \/ orders = << StoredOrder(None, FALSE, "accepted") >>
    /\ orderItems = << StoredItem(1) >>
    /\ payments = << >>
    /\ settings = << >>
    /\ runs = << >>
    /\ clock = 1
    /\ resp = NoResponse
    /\ CatalogAtRest

Settle ==
    \E p \in 1..Len(runs) :
        \/ load_payment(p)
        \/ save_payment(p)
        \/ load_order(p)
        \/ save_order(p)
        \/ handle_exception(p)

\* a request to payment or to payment_someone carrying one of the numbers
SubmitPaymentWith(numbers) ==
    \E caller \in Callers, order_id \in 1..(Len(orders) + 1), number \in numbers :
        \/ payment(caller, order_id, number)
        \/ payment_someone(caller, order_id, number)

SubmitPayment == SubmitPaymentWith(Numbers)

\* A rejected request answers and changes no table: the engine keeps the
\* requests that were accepted.
Submitted == SubmitPayment /\ resp'.code = 200

Next == Submitted \/ Settle

Spec == Init /\ [][Next]_vars

\* The requests with their answers, rejections included: one number that the
\* serializers accept and every number that they do not.
RequestNumbers ==
    { number \in Numbers :
        number = <<"1","2","3","4","5","6","7","8">> \/ validate_number(number) # "ok" }

Requested == SubmitPaymentWith(RequestNumbers)

NextRequests == Requested \/ Settle

\* a guest's order that is payable, one that is not, and one that was deleted
\* (is_active = False)
InitRequests ==
    /\ \/ \E status \in {"accepted", "completed"} :
             orders = << StoredOrder(None, TRUE, status) >>
       \/ orders = << StoredOrder(None, FALSE, "accepted") >>
    /\ orderItems = << StoredItem(1) >>
    /\ payments = << >>
    /\ settings = << >>
    /\ runs = << >>
    /\ clock = 1
    /\ resp = NoResponse
    /\ CatalogAtRest

SpecRequests == InitRequests /\ [][NextRequests]_vars

\* The engine with process_payment called again for a payment whose run has
\* ended, for the numbers of scenario C and scenario D.
ScenarioNumbers ==
    { <<"1","2","3","4","5","6","7","8">>, <<"1","2","3","4","5","6","7","0">> }

SubmittedScenario == SubmitPaymentWith(ScenarioNumbers) /\ resp'.code = 200

Resettle == \E p \in 1..Len(runs) : process_payment_again(p)

NextResettle == SubmittedScenario \/ Settle \/ Resettle

\* an accepted order, or one that an administrator has marked completed
InitResettle ==
    /\ \E status \in {"accepted", "completed"} :
          orders = << StoredOrder(None, TRUE, status) >>
    /\ orderItems = << StoredItem(1) >>
    /\ payments = << >>
    /\ settings = << >>
    /\ runs = << >>
    /\ clock = 1
    /\ resp = NoResponse
    /\ CatalogAtRest

SpecResettle == InitResettle /\ [][NextResettle]_vars

(***************************************************************************)
(* The checkout: one guest order as createFromBasket leaves it, its line   *)
(* items, and the delivery settings, missing or stored.                    *)
(***************************************************************************)
Item(price, count) == [order |-> 1, product |-> 1, price |-> price, count |-> count]

\* the line items of the order: none, totals of 1999, 2000, 2001 and 2500
ItemLists ==
    { << >>, << Item(1999, 1) >>, << Item(1000, 2) >>, << Item(667, 3) >>,
      << Item(1000, 1), Item(1500, 1) >> }

Checkout ==
    \E caller \in Callers, order_id \in 1..(Len(orders) + 1),
       deliveryType \in DeliveryInputs, paymentType \in PaymentInputs,
       contact \in ContactInputs :
        order_view_post(caller, order_id, deliveryType, paymentType, contact)

ReadOrder ==
    \E caller \in Callers, order_id \in 1..(Len(orders) + 1) :
        order_view_get(caller, order_id)

ReadSettings == delivery_settings

EditSettings == \E row \in SettingsInputs : admin_save_settings(row)

NextCheckout == Checkout \/ ReadOrder \/ ReadSettings \/ EditSettings

InitCheckout ==
    /\ \E items \in ItemLists :
          /\ orderItems = items
          /\ orders = << [StoredOrder(None, TRUE, "pending") EXCEPT
                            !.totalCost = SumOver(items, 1..Len(items))] >>
    /\ payments = << >>
    /\ settings \in {<< >>, << DefaultSettings >>}
    /\ runs = << >>
    /\ clock = 1
    /\ resp = NoResponse
    /\ CatalogAtRest

SpecCheckout == InitCheckout /\ [][NextCheckout]_vars

(***************************************************************************)
(* Properties of the payment engine.                                       *)
(***************************************************************************)
PaymentIds == 1..Len(payments)

\* C1: a payment's status changes only from pending to success or from pending
\* to failed; a payment that is success or failed never changes status again,
\* whatever the order of requests, settlement steps and repeated settlement calls.
C1_StatusOnlyLeavesPending ==
    [][\A p \in PaymentIds :
          payments'[p].status # payments[p].status
            => /\ payments[p].status = "pending"
               /\ payments'[p].status \in {"success", "failed"}]_vars

\* C1 witness: one payment has settled as success and another as failed.
C1_Witness ==
    \E p, q \in PaymentIds :
        /\ payments[p].status = "success" /\ Pc(p) = "done"
        /\ payments[q].status = "failed" /\ Pc(q) = "done"

\* C2: a call of process_payment for a payment that is already success or failed
\* stops at the pending test (or in the except branch): it leaves every payment
\* (status, error message, processed_at) and every order as they are.
C2_SecondSettleChangesNothing ==
    [][\A p \in PaymentIds :
          ( /\ runs[p].n > 1
            /\ runs'[p] # runs[p]
            /\ Pc(p) \in {"queued", "except"}
            /\ payments[p].status # "pending" )
            => /\ payments' = payments
               /\ orders' = orders
               /\ runs'[p].pc \in {"except", "done"}
               /\ runs'[p].payment = << >>]_vars

\* C2 witness: a second call has ended for a payment whose first run made it
\* success and moved the order to processing; the second call read nothing.
C2_Witness ==
    \E p \in PaymentIds :
        /\ runs[p].n = 2 /\ Pc(p) = "done" /\ runs[p].payment = << >>
        /\ payments[p].status = "success"
        /\ orders[payments[p].order].status = "processing"

\* C3: a settlement run that ends without an internal failure leaves the payment
\* success exactly when its number, read as an integer, is even and its last
\* digit is not 0, and otherwise failed with a message of the pool of five
\* decline reasons.  (Refuted by a number written in decimal digits other than
\* ASCII: int() reads them, endswith("0") does not.)
C3_OutcomeRule ==
    \A p \in PaymentIds :
        (Pc(p) = "done" /\ ~runs[p].raised) =>
            LET n == int(payments[p].number)
                good == n % 2 = 0 /\ n % 10 # 0
            IN  /\ payments[p].status = "success" <=> good
                /\ payments[p].status = "success" => payments[p].error_message = None
                /\ ~good => /\ payments[p].status = "failed"
                             /\ payments[p].error_message \in DeclineReasons
                /\ payments[p].processed_at # NoTime

\* C4: an order's status is changed only by the settlement of a payment of that
\* order whose outcome is success, only from accepted or pending, and only to
\* processing; in every other case the order's status stays as it is.
C4_OrderStatusOnlyOnSuccess ==
    [][\A o \in 1..Len(orders) :
          orders'[o].status # orders[o].status
            => /\ orders[o].status \in {"accepted", "pending"}
               /\ orders'[o].status = "processing"
               /\ \E p \in PaymentIds :
                     /\ payments[p].order = o
                     /\ payments[p].status = "success"
                     /\ Pc(p) = "order_loaded" /\ runs'[p].pc = "done"]_vars

\* C4 witness: a success has moved an accepted or pending order to processing,
\* and the settlement of a failed payment of the same order has ended.
C4_Witness ==
    \E p, q \in PaymentIds :
        /\ payments[p].status = "success" /\ Pc(p) = "done"
        /\ runs[p].order # << >>
        /\ runs[p].order[1].status = "processing"
        /\ orders[payments[p].order].status = "processing"
        /\ payments[q].status = "failed" /\ Pc(q) = "done"
        /\ payments[q].order = payments[p].order

\* C5: every settlement run that has ended has left its payment success or
\* failed, and failed with the technical-error message when the run raised.
\* (Refuted when the except branch's own read or save raises.)
C5_EndedRunLeavesTerminal ==
    \A p \in PaymentIds :
        Pc(p) = "done" =>
            /\ payments[p].status # "pending"
            /\ runs[p].raised => /\ payments[p].status = "failed"
                                  /\ payments[p].error_message = TechnicalError

(***************************************************************************)
(* Properties of the request handlers.                                     *)
(***************************************************************************)
\* a step in which payment or payment_someone answered a request
HandlerStep == resp' # resp \/ Len(payments') # Len(payments)

\* the order's status is neither accepted nor pending and the payment of the
\* order created last is success
PaidAndClosed(o) ==
    /\ orders[o].status \in {"processing", "completed", "canceled"}
    /\ \E p \in PaymentIds :
          /\ payments[p].order = o
          /\ payments[p].status = "success"
          /\ \A q \in PaymentIds :
                payments[q].order = o => payments[q].created_at <= payments[p].created_at

\* C6: a request to pay an order whose status is neither accepted nor pending and
\* whose most recent payment is success is answered "order already paid"; it
\* adds no payment and no settlement run.
C6_PaidOrderRejected ==
    [][\A o \in 1..Len(orders) :
          PaidAndClosed(o)
            => /\ \A p \in 1..Len(payments') : payments'[p].order = o => p \in PaymentIds
               /\ (HandlerStep /\ resp'.order = o /\ resp'.error # "not_found")
                    => /\ resp'.code = 400 /\ resp'.error = "already_paid"
                       /\ payments' = payments
                       /\ runs' = runs
                       /\ orders' = orders]_vars

\* C6 witness: a request by third-party account was answered "order already paid"
\* after a payment by card had moved the order to processing.
C6_Witness ==
    /\ resp.op = "payment_someone" /\ resp.error = "already_paid"
    /\ orders[resp.order].status = "processing"
    /\ \E p \in PaymentIds : payments[p].status = "success"
                              /\ payments[p].payment_type = "card"

\* the number is made of decimal digits only, of at most 8 of them, and is even
WellFormed(number) ==
    /\ Len(number) >= 1
    /\ \A i \in 1..Len(number) : number[i] \in AsciiDigit \cup ArabicIndicDigit
    /\ Len(number) <= 8
    /\ DigitVal(number[Len(number)]) \in {0, 2, 4, 6, 8}

\* C7: every payment stored has a number of digits only, of length at most 8 and
\* even, and so has every request answered 200; a request whose number is
\* anything else, once past the order lookup and the paid test, is answered with
\* a validation error, and then no payment is created, no run is scheduled and
\* the order is unchanged.
\* (Refuted by a number of characters that isdigit() takes and int() does not:
\* the ValueError leaves the handler as a server error.)
C7_NumberValidated ==
    /\ [](\A p \in PaymentIds : WellFormed(payments[p].number))
    /\ [](resp.code = 200 => WellFormed(resp.number))
    /\ [][(HandlerStep /\ resp'.error \notin {"not_found", "already_paid"}
                       /\ ~WellFormed(resp'.number))
            => /\ resp'.code = 400 /\ resp'.error = "validation"
               /\ payments' = payments
               /\ runs' = runs
               /\ orders' = orders
               /\ orderItems' = orderItems]_vars

\* C8 as stated: every request that passes the paid test and validation adds
\* exactly one payment, pending, and schedules one settlement run for it; the
\* order and the earlier payments are as before.
C8_AcceptedRequestSchedulesRun ==
    [][Len(payments') # Len(payments)
         => /\ Len(payments') = Len(payments) + 1
            /\ \A p \in PaymentIds : payments'[p] = payments[p]
            /\ orders' = orders
            /\ orderItems' = orderItems
            /\ payments'[Len(payments')].order = resp'.order
            /\ payments'[Len(payments')].status = "pending"
            /\ Len(runs') = Len(payments')
            /\ runs'[Len(runs')].pc = "queued"]_vars

\* C8: a request that passes the paid test and validation adds exactly one
\* payment, belonging to the order, and is answered 200; the order and the
\* earlier payments and runs are as before.  When the pool takes the task the
\* payment is pending and one run is queued for it; when the pool refuses it no
\* run is scheduled and the payment is failed with the message of the submit
\* error, or is left pending when that write fails as well.
C8_AcceptedRequestAddsOnePending ==
    [][Len(payments') # Len(payments)
         => /\ Len(payments') = Len(payments) + 1
            /\ Len(runs') = Len(payments')
            /\ \A p \in PaymentIds : payments'[p] = payments[p] /\ runs'[p] = runs[p]
            /\ orders' = orders
            /\ orderItems' = orderItems
            /\ resp'.code = 200
            /\ LET new == Len(payments') IN
                 /\ payments'[new].order = resp'.order
                 /\ get_order_or_404("anon", resp'.order) # 0
                      \/ \E u \in Users : get_order_or_404(u, resp'.order) # 0
                 /\ ~already_paid(resp'.order)
                 /\ runs'[new].pc \in {"queued", "none"}
                 /\ runs'[new].pc = "queued"
                      => /\ payments'[new].status = "pending"
                         /\ payments'[new].processed_at = NoTime
                         /\ payments'[new].error_message = None
                 /\ runs'[new].pc = "none"
                      => \/ /\ payments'[new].status = "failed"
                            /\ payments'[new].error_message = SubmitError
                            /\ payments'[new].processed_at # NoTime
                         \/ /\ payments'[new].status = "pending"
                            /\ payments'[new].processed_at = NoTime
                            /\ payments'[new].error_message = None]_vars

\* C8 witness: a second payment of the order has just been accepted: it is
\* pending and its run is queued, while the first payment is already settled.
C8_Witness ==
    /\ Len(payments) = 2
    /\ resp.code = 200
    /\ payments[2].status = "pending" /\ Pc(2) = "queued"
    /\ payments[1].status = "failed" /\ Pc(1) = "done"
    /\ payments[1].order = payments[2].order

(***************************************************************************)
(* Properties of the checkout.                                             *)
(***************************************************************************)
\* the sum of price x count over the line items of order o among rows
LineItemsTotal(rows, o) ==
    SumOver(rows, {i \in 1..Len(rows) : rows[i].order = o})

\* the delivery cost that the table of the specification gives for a delivery
\* type, a products total and a stored settings row
TableCost(deliveryType, total, row) ==
    CASE deliveryType = "express" -> row.express_delivery_cost
      [] deliveryType = "ordinary" /\ total < row.free_delivery_threshold ->
             row.regular_delivery_cost
      [] deliveryType = "ordinary" /\ total >= row.free_delivery_threshold -> 0
      [] OTHER -> 0

\* C9: the delivery cost an order is read back with is the express cost of the
\* stored settings when its delivery type is express, whatever its products
\* total; the regular cost when the type is ordinary and the total of its line
\* items is strictly below the free-delivery threshold; and 0 when the type is
\* ordinary and the total is at or above the threshold.
C9_DeliveryCostTable ==
    [][ (HandlerStep /\ resp'.op = "order_get" /\ resp'.code = 200) =>
          LET o == resp'.order
              total == LineItemsTotal(orderItems', o)
              row == settings'[1]
          IN  /\ settings' # << >>
              /\ orders'[o].deliveryType = "express" =>
                    resp'.deliveryCost = row.express_delivery_cost
              /\ (orders'[o].deliveryType = "ordinary"
                     /\ total < row.free_delivery_threshold) =>
                    resp'.deliveryCost = row.regular_delivery_cost
              /\ (orders'[o].deliveryType = "ordinary"
                     /\ total >= row.free_delivery_threshold) =>
                    resp'.deliveryCost = 0 ]_vars

\* C9 witness: an order with ordinary delivery whose products total is exactly
\* the threshold has been read back with delivery cost 0.
C9_Witness ==
    /\ resp.op = "order_get" /\ resp.code = 200
    /\ resp.deliveryType = "ordinary"
    /\ resp.deliveryCost = 0
    /\ settings # << >>
    /\ LineItemsTotal(orderItems, resp.order) = settings[1].free_delivery_threshold

\* C10: a checkout that succeeds leaves the order accepted with totalCost equal
\* to the sum of price x count over its stored line items plus the delivery
\* cost of the chosen delivery type under the settings stored at that moment,
\* and reading the order returns the stored status and totalCost.
C10_CheckoutTotal ==
    /\ [][ (HandlerStep /\ resp'.op = "order_post" /\ resp'.code = 200) =>
             LET o == resp'.order IN
             /\ settings' # << >>
             /\ orders'[o].status = "accepted"
             /\ orders'[o].totalCost =
                    LineItemsTotal(orderItems', o)
                    + TableCost(orders'[o].deliveryType,
                                LineItemsTotal(orderItems', o), settings'[1]) ]_vars
    /\ [][ (HandlerStep /\ resp'.op = "order_get" /\ resp'.code = 200) =>
             /\ resp'.status = orders'[resp'.order].status
             /\ resp'.totalCost = orders'[resp'.order].totalCost
             /\ resp'.deliveryType = orders'[resp'.order].deliveryType ]_vars

\* C10 witness: the order of 1000 + 1500 was checked out with express delivery
\* at express cost 500 and read back as accepted with totalCost 3000.
C10_Witness ==
    /\ resp.op = "order_get" /\ resp.code = 200
    /\ resp.status = "accepted"
    /\ resp.deliveryType = "express"
    /\ resp.totalCost = 3000
    /\ resp.deliveryCost = 500
    /\ LineItemsTotal(orderItems, resp.order) = 2500

(***************************************************************************)
(* An order from the basket to processing: the order as createFromBasket   *)
(* leaves it, its checkout, one payment of it and the settlement of that   *)
(* payment.  The delivery settings are the defaults throughout.            *)
(***************************************************************************)
\* a checkout that was answered 200
CheckedOut == Checkout /\ resp'.code = 200

\* the first payment of the order, with the number of scenario C
PaidOnce ==
    /\ Len(payments) = 0
    /\ SubmitPaymentWith({ <<"1","2","3","4","5","6","7","8">> })
    /\ resp'.code = 200

NextOrderLife == CheckedOut \/ PaidOnce \/ Settle

SpecOrderLife == InitCheckout /\ [][NextOrderLife]_vars

\* C11: every order whose status is processing or completed has totalCost equal
\* to the sum of price x count over its line items plus the delivery cost of its
\* delivery type, whichever way it reached processing.  (Refuted by the payment
\* of an order that was never checked out: its totalCost is the products total.)
C11_ProcessingTotalIncludesDelivery ==
    \A o \in 1..Len(orders) :
        orders[o].status \in {"processing", "completed"} =>
            orders[o].totalCost =
                LineItemsTotal(orderItems, o)
                + TableCost(orders[o].deliveryType, LineItemsTotal(orderItems, o),
                            DefaultSettings)

(***************************************************************************)
(* orders/models.py: the delivery settings store.  DeliverySettings.       *)
(* get_settings() step by step, one step per database access, for calls    *)
(* that run at the same time; and the other operations on the row.  The    *)
(* table is a sequence whose index is the primary key: a second row would  *)
(* be a row with another key.                                              *)
(***************************************************************************)
\* the end of a call of get_settings: the object returned, or the exception raised
Returned(created, by) ==
    [pc |-> "returned", pk |-> 1, created |-> created, by |-> by,
     t |-> IF created THEN "float" ELSE "Decimal"]

Raised(error) == [pc |-> "raised", error |-> error]

At(w, pc) == calls[w].pc = pc

Become(w, call) == calls' = [calls EXCEPT ![w] = call]

\* everything but the settings table and the calls
RestOfSettings == <<orders, orderItems, payments, runs, clock, resp, products, sales, today>>

\* get_settings, l.145-148: cls.objects.get(pk=1), or DoesNotExist
get_settings_get(w) ==
    /\ calls[w].pc \in {"idle", "returned", "raised"}
    /\ IF settings # << >> THEN Become(w, Returned(FALSE, "get"))
       ELSE Become(w, [pc |-> "get_or_create"])
    /\ UNCHANGED settings
    /\ UNCHANGED RestOfSettings

\* get_or_create, l.41-46: select_for_update().get(pk=1), or DoesNotExist
get_or_create_get(w) ==
    /\ At(w, "get_or_create")
    /\ IF settings # << >> THEN Become(w, Returned(FALSE, "get_or_create"))
       ELSE Become(w, [pc |-> "create"])
    /\ UNCHANGED settings
    /\ UNCHANGED RestOfSettings

\* DeliverySettingsManager.create, l.26-31: the exists() test; its ValidationError
\* is caught at l.52 of get_or_create
create_exists(w) ==
    /\ At(w, "create")
    /\ IF settings # << >> THEN Become(w, [pc |-> "fallback"])
       ELSE Become(w, [pc |-> "save"])
    /\ UNCHANGED settings
    /\ UNCHANGED RestOfSettings

\* DeliverySettings.save, l.113-119: the exists() test of a new object
save_exists(w) ==
    /\ At(w, "save")
    /\ IF settings # << >> THEN Become(w, [pc |-> "fallback"])
       ELSE Become(w, [pc |-> "insert"])
    /\ UNCHANGED settings
    /\ UNCHANGED RestOfSettings

\* DeliverySettings.save, l.121: super().save(force_insert=True); the INSERT of a
\* second row with pk 1 raises IntegrityError, which nothing catches
save_insert(w) ==
    /\ At(w, "insert")
    /\ IF settings = << >>
       THEN /\ settings' = << DefaultSettings >>
            /\ Become(w, Returned(TRUE, "create"))
       ELSE /\ UNCHANGED settings
            /\ Become(w, Raised("IntegrityError"))
    /\ UNCHANGED RestOfSettings

\* get_or_create, l.52-55: after ValidationError, self.get(pk=1)
fallback_get(w) ==
    /\ At(w, "fallback")
    /\ IF settings # << >> THEN Become(w, Returned(FALSE, "fallback"))
       ELSE Become(w, Raised("DoesNotExist"))
    /\ UNCHANGED settings
    /\ UNCHANGED RestOfSettings

\* the answer of an operation on the settings row
SettingsResponse(op, error) == Response(op, 0, << >>, 0, error)

\* manager_create without its exists() test and without the forced pk
manager_create_unguarded(row) ==
    /\ settings' = Append(settings, row)
    /\ resp' = SettingsResponse("manager_create", "none")
    /\ UNCHANGED <<orders, orderItems, payments, runs, clock, products, sales, today, calls>>

\* DeliverySettings.objects.create(**row), l.19-32, run alone
manager_create(row) ==
    /\ IF settings # << >>
       THEN /\ resp' = SettingsResponse("manager_create", "already_exists")
            /\ UNCHANGED settings
       ELSE /\ resp' = SettingsResponse("manager_create", "none")
            /\ settings' = << row >>
    /\ UNCHANGED <<orders, orderItems, payments, runs, clock, products, sales, today, calls>>

\* DeliverySettings(**row).save() of a new object, l.104-128, run alone
save_new(row) ==
    /\ IF settings # << >>
       THEN /\ resp' = SettingsResponse("save_new", "already_exists")
            /\ UNCHANGED settings
       ELSE /\ resp' = SettingsResponse("save_new", "none")
            /\ settings' = << row >>
    /\ UNCHANGED <<orders, orderItems, payments, runs, clock, products, sales, today, calls>>

\* delete_settings deleting the row
delete_settings_row ==
    /\ settings # << >>
    /\ settings' = << >>
    /\ resp' = SettingsResponse("delete", "none")
    /\ UNCHANGED <<orders, orderItems, payments, runs, clock, products, sales, today, calls>>

\* DeliverySettings.delete, l.130-136, of the object read from the table
delete_settings ==
    /\ settings # << >>
    /\ resp' = SettingsResponse("delete", "cannot_delete")
    /\ UNCHANGED <<orders, orderItems, payments, settings, runs, clock, products, sales, today, calls>>

\* DeliverySettingsAdmin.has_delete_permission, l.145-147: the delete view of the
\* admin site is refused
admin_delete_settings ==
    /\ settings # << >>
    /\ resp' = Response("admin_delete", 0, << >>, 403, "permission_denied")
    /\ UNCHANGED <<orders, orderItems, payments, settings, runs, clock, products, sales, today, calls>>

GetSettings ==
    \E w \in Workers :
        \/ get_settings_get(w)
        \/ get_or_create_get(w)
        \/ create_exists(w)
        \/ save_exists(w)
        \/ save_insert(w)
        \/ fallback_get(w)

CreateSettings == \E row \in SettingsInputs : manager_create(row)

SaveNewSettings == \E row \in SettingsInputs : save_new(row)

DeleteSettings == delete_settings \/ admin_delete_settings

NextSettings ==
    GetSettings \/ CreateSettings \/ SaveNewSettings \/ EditSettings \/ DeleteSettings

\* an empty table: nothing has read the settings yet
InitSettings ==
    /\ orders = << >>
    /\ orderItems = << >>
    /\ payments = << >>
    /\ settings = << >>
    /\ runs = << >>
    /\ clock = 1
    /\ resp = NoResponse
    /\ CatalogAtRest

SpecSettings == InitSettings /\ [][NextSettings]_vars

\* C12: whatever get_settings calls, creations, saves and deletions have run, the
\* table holds at most one row, and that row has primary key 1 (it is the first
\* row of the table).
C12_AtMostOneRow == Len(settings) <= 1

\* C12 witness: a creation was refused because the row exists, and the row has
\* since been edited.
C12_Witness ==
    /\ Len(settings) = 1
    /\ settings[1] # DefaultSettings
    /\ resp.op = "manager_create" /\ resp.error = "already_exists"
    /\ \E w \in Workers : calls[w].pc = "returned" /\ calls[w].created

\* C13: of two get_settings calls on an empty table that run at the same time,
\* neither raises: each returns the row with primary key 1, one row is stored,
\* and the call that lost the race re-reads the row.  (Refuted when both calls
\* pass the exists() tests before either inserts: the second INSERT raises
\* IntegrityError, which get_or_create does not catch.)
C13_BothCallsReturnTheRow ==
    \A w \in Workers :
        /\ calls[w].pc # "raised"
        /\ calls[w].pc = "returned" => /\ calls[w].pk = 1
                                        /\ Len(settings) = 1
                                        /\ calls[w].created <=> calls[w].by = "create"

\* a step of the delete of the model or of the admin site
DeleteStep == resp' # resp /\ resp'.op \in {"delete", "admin_delete"}

\* C14: a delete of the settings row fails, the model's with its fixed error and
\* the admin site's with a refusal, and leaves the row and its three values as
\* they are; a row that exists is never removed by any step.
C14_DeleteAlwaysFails ==
    [][ /\ settings # << >> => settings' # << >>
        /\ DeleteStep => /\ settings' = settings
                          /\ resp'.error \in {"cannot_delete", "permission_denied"}
                          /\ resp'.op = "delete" => resp'.error = "cannot_delete" ]_vars

\* C14 witness: a delete has just failed on a row whose values were edited.
C14_Witness ==
    /\ resp.op = "delete" /\ resp.error = "cannot_delete"
    /\ Len(settings) = 1
    /\ settings[1] = SettingsRow(700, 2500, 300)

(***************************************************************************)
(* catalog/models.py: products, their sales (discount windows) and the     *)
(* current price.  Dates are day numbers; the sales table is a sequence    *)
(* whose index is the primary key.  A save is one step: the saves of this  *)
(* part run one after another.                                             *)
(***************************************************************************)
MaxDay == 2

MaxSales == 2

Days == 1..MaxDay

ProductIds == 1..2

NewSale(product, salePrice, dateFrom, dateTo, is_active) ==
    [product |-> product, salePrice |-> salePrice, dateFrom |-> dateFrom,
     dateTo |-> dateTo, is_active |-> is_active]

\* the sales a form can submit: sale prices 500 and 800 for product 1, 300 for
\* product 2, any pair of dates (also a start after the end), active or not
SaleInputs ==
    { NewSale(ps[1], ps[2], dateFrom, dateTo, is_active) :
        ps \in { <<1, 500>>, <<1, 800>>, <<2, 300>> },
        dateFrom \in Days, dateTo \in Days, is_active \in BOOLEAN }

\* the rows of Sale.objects.filter(product=.., is_active=True, dateFrom__lte=to,
\* dateTo__gte=from)
ActiveSalesIn(rows, product, from, to) ==
    { i \in 1..Len(rows) :
        /\ rows[i].product = product
        /\ rows[i].is_active
        /\ rows[i].dateFrom <= to
        /\ rows[i].dateTo >= from }

\* clean without the test for overlapping active sales
clean_dates_only(pk, sale) ==
    IF sale.dateFrom > sale.dateTo THEN "DateRange" ELSE "ok"

\* clean without the exclusion of the sale being updated
clean_counting_self(pk, sale) ==
    IF sale.dateFrom > sale.dateTo THEN "DateRange"
    ELSE IF /\ sale.is_active
            /\ ActiveSalesIn(sales, sale.product, sale.dateFrom, sale.dateTo) # {}
         THEN "Overlap"
         ELSE "ok"

\* Sale.clean of the object with primary key pk (0: a new object, self.pk is None)
clean(pk, sale) ==
    IF sale.dateFrom > sale.dateTo THEN "DateRange"
    ELSE IF /\ sale.is_active
            /\ ActiveSalesIn(sales, sale.product, sale.dateFrom, sale.dateTo) \ {pk} # {}
         THEN "Overlap"
         ELSE "ok"

\* the answer of a save of a sale: what was submitted and the ValidationError, if any
SaleResponse(pk, sale, error) ==
    [op |-> "sale_save", pk |-> pk, sale |-> sale, code |-> 0, error |-> error]

\* Sale.save: full_clean(), then super().save()
Sale_save(pk, sale) ==
    /\ IF clean(pk, sale) = "ok"
       THEN sales' = IF pk = 0 THEN Append(sales, sale) ELSE [sales EXCEPT ![pk] = sale]
       ELSE UNCHANGED sales
    /\ resp' = SaleResponse(pk, sale, clean(pk, sale))
    /\ UNCHANGED <<orders, orderItems, payments, settings, runs, clock, products, today, calls>>

\* SaleAdmin.delete_model: is_active = False, then save()
delete_model(pk) == Sale_save(pk, [sales[pk] EXCEPT !.is_active = FALSE])

ProductPrices == {1000, 1200}

\* ProductAdmin: the change form of a product saves its price and is_active
admin_save_product(product, price, is_active) ==
    /\ products' = [products EXCEPT ![product].price = price,
                                    ![product].is_active = is_active]
    /\ UNCHANGED <<orders, orderItems, payments, settings, runs, clock, resp, sales, today, calls>>

\* get_current_price ignoring is_active
current_price_of_any_sale(product) ==
    LET covering == { i \in 1..Len(sales) :
                        /\ sales[i].product = product
                        /\ sales[i].dateFrom <= today
                        /\ sales[i].dateTo >= today }
    IN  IF covering = {} THEN products[product].price
        ELSE sales[CHOOSE i \in covering : \A j \in covering : i <= j].salePrice

\* Product.get_current_price: the first (lowest pk) active sale of the product
\* with dateFrom <= date.today() <= dateTo, else the price of the product
get_current_price(product) ==
    LET active_sale == ActiveSalesIn(sales, product, today, today)
    IN  IF active_sale = {} THEN products[product].price
        ELSE sales[CHOOSE i \in active_sale : \A j \in active_sale : i <= j].salePrice

SaveSale ==
    \E pk \in 0..Len(sales), sale \in SaleInputs :
        /\ pk = 0 => Len(sales) < MaxSales
        /\ Sale_save(pk, sale)

SoftDeleteSale == \E pk \in 1..Len(sales) : delete_model(pk)

EditProduct ==
    \E price \in ProductPrices, is_active \in BOOLEAN :
        admin_save_product(1, price, is_active)

\* date.today() moves on
NextDay ==
    /\ today < MaxDay
    /\ today' = today + 1
    /\ UNCHANGED <<orders, orderItems, payments, settings, runs, clock, resp, products, sales, calls>>

NextCatalog == SaveSale \/ SoftDeleteSale \/ EditProduct \/ NextDay

\* two products and no sale yet
InitCatalog ==
    /\ orders = << >>
    /\ orderItems = << >>
    /\ payments = << >>
    /\ settings = << >>
    /\ runs = << >>
    /\ clock = 1
    /\ resp = NoResponse
    /\ products = << StoredProduct(1000, TRUE), StoredProduct(600, TRUE) >>
    /\ sales = << >>
    /\ today = 1
    /\ calls = [w \in Workers |-> Idle]

SpecCatalog == InitCatalog /\ [][NextCatalog]_vars

\* the inclusive ranges of two sales have a day in common
Intersect(a, b) == a.dateFrom <= b.dateTo /\ b.dateFrom <= a.dateTo

\* C15: after any sequence of saves of sales (create, edit, activate,
\* deactivate), two different active sales of one product never have a day in
\* common, so at most one active sale of a product covers any date.
C15_ActiveSalesDisjoint ==
    /\ \A i, j \in 1..Len(sales) :
          (i # j /\ sales[i].is_active /\ sales[j].is_active
                 /\ sales[i].product = sales[j].product)
              => ~Intersect(sales[i], sales[j])
    /\ \A product \in ProductIds, d \in Days :
          Cardinality(ActiveSalesIn(sales, product, d, d)) <= 1

\* C15 witness: two active sales of product 1 on different days are stored, and
\* the last save was refused for overlapping.
C15_Witness ==
    /\ Len(sales) = 2
    /\ sales[1].product = 1 /\ sales[2].product = 1
    /\ sales[1].is_active /\ sales[2].is_active
    /\ resp.op = "sale_save" /\ resp.error = "Overlap"

\* the save of sale as row pk must be refused: start after end, or active and
\* sharing a day with another active sale of the same product
MustReject(pk, sale) ==
    \/ sale.dateFrom > sale.dateTo
    \/ /\ sale.is_active
       /\ \E i \in 1..Len(sales) :
             /\ i # pk
             /\ sales[i].is_active
             /\ sales[i].product = sale.product
             /\ Intersect(sales[i], sale)

\* C16: a save of a sale is refused exactly when its start is after its end or it
\* is active and shares a day with another active sale of the same product (the
\* sale itself not counted); a refused save leaves the table as it is, and an
\* accepted save stores the sale, as a new row or in place of the row updated.
C16_SaveRejectedExactlyWhen ==
    [][ (resp' # resp /\ resp'.op = "sale_save") =>
          /\ resp'.error # "ok" <=> MustReject(resp'.pk, resp'.sale)
          /\ resp'.error # "ok" => sales' = sales
          /\ resp'.error = "ok" =>
                sales' = IF resp'.pk = 0 THEN Append(sales, resp'.sale)
                         ELSE [sales EXCEPT ![resp'.pk] = resp'.sale] ]_vars

\* C16 witness: an active sale saved again unchanged was accepted while an
\* inactive sale on the same days is stored next to it.
C16_Witness ==
    /\ Len(sales) = 2
    /\ resp.op = "sale_save" /\ resp.error = "ok" /\ resp.pk = 1
    /\ sales[1].is_active /\ ~sales[2].is_active
    /\ sales[1].product = sales[2].product
    /\ Intersect(sales[1], sales[2])

\* C17: the current price of a product is its own price when no active sale of
\* the product covers today, and the sale price of the covering active sale
\* otherwise; inactive sales and sales of other products do not count.
C17_CurrentPrice ==
    \A product \in ProductIds :
        LET covering == { i \in 1..Len(sales) :
                            /\ sales[i].product = product
                            /\ sales[i].is_active
                            /\ sales[i].dateFrom <= today /\ today <= sales[i].dateTo }
        IN  /\ covering = {} => get_current_price(product) = products[product].price
            /\ \A i \in covering : get_current_price(product) = sales[i].salePrice

\* C17 witness: product 1 has an inactive sale at 500 and an active sale at 800
\* that both cover today, product 2 has no sale, and the current prices are
\* 800 and the price of product 2.
C17_Witness ==
    /\ Len(sales) = 2
    /\ sales[1] = NewSale(1, 500, 1, 2, FALSE)
    /\ sales[2] = NewSale(1, 800, 2, 2, TRUE)
    /\ today = 2
    /\ products[1].price = 1200
    /\ get_current_price(1) = 800
    /\ get_current_price(2) = 600

(***************************************************************************)
(* orders/views.py, orders (POST): an order is made from the entries of a  *)
(* basket, one step per database access, while the catalog changes.        *)
(***************************************************************************)
MaxOrders == 1

Entry(id, count) == [id |-> id, count |-> count]

\* the request bodies: product 1 is active, product 2 is not, there is no product 3
BasketInputs ==
    { << >>,
      << Entry(1, 2) >>,
      << Entry(2, 1), Entry(1, 1) >>,
      << Entry(3, 1), Entry(1, 2) >>,
      << Entry(1, 1), Entry(2, 2) >>,
      << Entry(1, 1), Entry(1, 2) >> }

\* l.61: Order.objects.create(**order_data) of an anonymous caller
NewOrder ==
    [StoredOrder(None, TRUE, "pending") EXCEPT !.totalCost = 0]

\* product.get_current_price() of the object self read at l.71: the sales are
\* read from the table at the call, the price is the one read with the object
instance_current_price(id, self) ==
    IF ActiveSalesIn(sales, id, today, today) = {} THEN self.price
    ELSE get_current_price(id)

\* l.38-64: the body is parsed, the order is created, total_cost = 0
orders_create(w, data) ==
    /\ At(w, "idle")
    /\ orders' = Append(orders, NewOrder)
    /\ Become(w, [pc |-> "get_product", order |-> Len(orders) + 1, data |-> data,
                  i |-> 1, total_cost |-> 0, product |-> None])
    /\ UNCHANGED <<orderItems, payments, settings, runs, clock, resp, products, sales, today>>

\* the loop goes on with the next entry
NextEntry(w) == [calls[w] EXCEPT !.i = @ + 1, !.pc = "get_product", !.product = None]

\* orders_get_product finding inactive products too
orders_get_any_product(w) ==
    /\ At(w, "get_product")
    /\ calls[w].i <= Len(calls[w].data)
    /\ LET id == calls[w].data[calls[w].i].id
       IN  IF id \in 1..Len(products)
           THEN Become(w, [calls[w] EXCEPT !.pc = "create_item", !.product = products[id]])
           ELSE Become(w, NextEntry(w))
    /\ UNCHANGED <<orders, orderItems, payments, settings, runs, clock, resp, products, sales, today>>

\* l.68-71 and l.88-89: Product.objects.get(id=product_id, is_active=True);
\* ObjectDoesNotExist goes on with the next entry
orders_get_product(w) ==
    /\ At(w, "get_product")
    /\ calls[w].i <= Len(calls[w].data)
    /\ LET id == calls[w].data[calls[w].i].id
       IN  IF id \in 1..Len(products) /\ products[id].is_active
           THEN Become(w, [calls[w] EXCEPT !.pc = "create_item", !.product = products[id]])
           ELSE Become(w, NextEntry(w))
    /\ UNCHANGED <<orders, orderItems, payments, settings, runs, clock, resp, products, sales, today>>

\* l.74-79: OrderItem.objects.create(order, product, price=get_current_price(), count)
orders_create_item(w) ==
    /\ At(w, "create_item")
    /\ LET entry == calls[w].data[calls[w].i]
       IN  orderItems' = Append(orderItems,
                                [order |-> calls[w].order, product |-> entry.id,
                                 price |-> instance_current_price(entry.id, calls[w].product),
                                 count |-> entry.count])
    /\ Become(w, [calls[w] EXCEPT !.pc = "add_total"])
    /\ UNCHANGED <<orders, payments, settings, runs, clock, resp, products, sales, today>>

\* l.82: total_cost += product.get_current_price() * Decimal(str(count)), a second
\* call of get_current_price
orders_add_total(w) ==
    /\ At(w, "add_total")
    /\ LET entry == calls[w].data[calls[w].i]
       IN  Become(w, [calls[w] EXCEPT
                        !.pc = "save_product",
                        !.total_cost = @ + instance_current_price(entry.id, calls[w].product)
                                           * entry.count])
    /\ UNCHANGED <<orders, orderItems, payments, settings, runs, clock, resp, products, sales, today>>

\* l.85-86: product.purchases_count += count; product.save() writes every field
\* of the object read at l.71
orders_save_product(w) ==
    /\ At(w, "save_product")
    /\ LET entry == calls[w].data[calls[w].i]
       IN  products' = [products EXCEPT ![entry.id] =
                           [calls[w].product EXCEPT !.purchases_count = @ + entry.count]]
    /\ Become(w, NextEntry(w))
    /\ UNCHANGED <<orders, orderItems, payments, settings, runs, clock, resp, sales, today>>

\* l.91-103: the basket is emptied, order.totalCost = total_cost, order.save(),
\* and the order id is answered
orders_finish(w) ==
    /\ At(w, "get_product")
    /\ calls[w].i > Len(calls[w].data)
    /\ orders' = [orders EXCEPT ![calls[w].order] =
                      [NewOrder EXCEPT !.totalCost = calls[w].total_cost]]
    /\ Become(w, [pc |-> "done", order |-> calls[w].order, data |-> calls[w].data])
    /\ resp' = Response("orders", calls[w].order, << >>, 200, "none")
    /\ UNCHANGED <<orderItems, payments, settings, runs, clock, products, sales, today>>

CreateFromBasket ==
    \E w \in Workers :
        \/ \E data \in BasketInputs : Len(orders) < MaxOrders /\ orders_create(w, data)
        \/ orders_get_product(w)
        \/ orders_create_item(w)
        \/ orders_add_total(w)
        \/ orders_save_product(w)
        \/ orders_finish(w)

\* one sale of product 1 at 500 on every day, active or not
BasketSaleInputs == { NewSale(1, 500, 1, MaxDay, is_active) : is_active \in BOOLEAN }

\* the sale is created, activated or deactivated
ChangeSale ==
    \E pk \in 0..Len(sales), sale \in BasketSaleInputs :
        /\ pk = 0 => Len(sales) < 1
        /\ Sale_save(pk, sale)

\* the price of product 1 is edited; no product is activated or deactivated
EditPrice ==
    \E price \in ProductPrices : admin_save_product(1, price, products[1].is_active)

NextBasket == CreateFromBasket \/ ChangeSale \/ EditPrice

\* an active product, an inactive product, no sale and no order
InitBasket ==
    /\ orders = << >>
    /\ orderItems = << >>
    /\ payments = << >>
    /\ settings = << >>
    /\ runs = << >>
    /\ clock = 1
    /\ resp = NoResponse
    /\ products = << StoredProduct(1000, TRUE), StoredProduct(600, FALSE) >>
    /\ sales = << >>
    /\ today = 1
    /\ calls = [w \in Workers |-> Idle]

SpecBasket == InitBasket /\ [][NextBasket]_vars

\* the entries of a body whose product exists and is active
ValidEntries(data) ==
    SelectSeq(data, LAMBDA e : e.id \in 1..Len(products) /\ products[e.id].is_active)

\* the line items of order o, in the order of their creation, as entries
EntriesOf(o) ==
    LET mine == SelectSeq(orderItems, LAMBDA item : item.order = o)
    IN  [k \in 1..Len(mine) |-> Entry(mine[k].product, mine[k].count)]

\* C18: a call of orders (POST) creates the order whatever the entries are; when
\* it has ended, the order has one line item for each entry whose product
\* exists and is active, in the order of the entries, and none for the others
\* (so the entries after a skipped one are still processed); the purchases
\* counter of the inactive product, which every entry naming it skips, stays 0.
C18_ItemsForValidEntries ==
    \A w \in Workers :
        /\ calls[w].pc # "idle" => calls[w].order \in 1..Len(orders)
        /\ calls[w].pc = "done" => EntriesOf(calls[w].order) = ValidEntries(calls[w].data)
        /\ products[2].purchases_count = 0

\* C18 witness: a call whose first entry names the inactive product has ended
\* with one line item, for its second entry.
C18_Witness ==
    \E w \in Workers :
        /\ calls[w].pc = "done"
        /\ calls[w].data = << Entry(2, 1), Entry(1, 1) >>
        /\ EntriesOf(calls[w].order) = << Entry(1, 1) >>
        /\ products[1].purchases_count = 1

\* C19: when a call of orders (POST) has ended, the order's totalCost is the sum
\* of stored price x count over its line items, also when a sale of an ordered
\* product is created, activated or deactivated during the call.  (Refuted:
\* the price is looked up once for the line item and once more for the total.)
C19_TotalIsSumOfStoredPrices ==
    \A w \in Workers :
        calls[w].pc = "done" =>
            orders[calls[w].order].totalCost = LineItemsTotal(orderItems, calls[w].order)

\* a step that changes the price or the activity of a product or the sales table
CatalogStep ==
    \/ sales' # sales
    \/ \E id \in 1..Len(products) :
          \/ products'[id].price # products[id].price
          \/ products'[id].is_active # products[id].is_active

\* C20: a change of the catalog (a product's price, the creation, edit,
\* activation or deactivation of a sale) changes no line item, no order's
\* products total and no order's stored totalCost.
C20_CatalogChangeKeepsSnapshot ==
    [][ CatalogStep =>
          /\ orderItems' = orderItems
          /\ \A o \in 1..Len(orders) :
                /\ products_total(o)' = products_total(o)
                /\ orders'[o].totalCost = orders[o].totalCost ]_vars

\* C20 witness: the order holds a line item at 1000 while the product costs
\* 1200 and has an active sale at 500.
C20_Witness ==
    /\ Len(orderItems) >= 1
    /\ orderItems[1].price = 1000
    /\ products[1].price = 1200
    /\ get_current_price(1) = 500
    /\ \E w \in Workers : calls[w].pc = "done" /\ orders[calls[w].order].totalCost = 2000

(***************************************************************************)
(* Who may reach an order: order_view, payment, payment_someone and        *)
(* payment_status called by users and by unauthenticated sessions for an   *)
(* order of a guest or of user u1, active or soft-deleted.                 *)
(***************************************************************************)
\* the body of payment_status for the payment with key p (0: no payment)
StatusBody(p) ==
    IF p = 0 THEN [status |-> "no_payment", error_message |-> None]
    ELSE [status |-> payments[p].status,
          error_message |-> IF payments[p].status = "failed"
                            THEN payments[p].error_message ELSE None]

\* payment_status(request, order_id), l.302-326
payment_status(caller, order_id) ==
    LET o == get_order_or_404(caller, order_id) IN
    IF o = 0 THEN Reject("payment_status", order_id, << >>, 404, "not_found")
    ELSE /\ resp' = [ op |-> "payment_status", order |-> order_id, number |-> << >>,
                      code |-> 200, error |-> "none",
                      body |-> StatusBody(last_payment(o)) ]
         /\ UNCHANGED <<orders, orderItems, payments, settings, runs, clock, products, sales, today, calls>>

AccessCallers == Sessions \cup Users

\* the checkout form sent: express delivery, payment from another account
checkout_by(caller, order_id) ==
    order_view_post(caller, order_id, "express", "someone", "filled")

\* a payment request with a number that settles as success or one that fails
pay_by(caller, order_id) ==
    \E number \in ScenarioNumbers :
        \/ payment(caller, order_id, number)
        \/ payment_someone(caller, order_id, number)

\* any of the requests about an order
request_by(caller, order_id) ==
    \/ checkout_by(caller, order_id)
    \/ order_view_get(caller, order_id)
    \/ pay_by(caller, order_id)
    \/ payment_status(caller, order_id)

AccessCheckout ==
    \E caller \in AccessCallers, order_id \in 1..(Len(orders) + 1) :
        checkout_by(caller, order_id)

AccessRead ==
    \E caller \in AccessCallers, order_id \in 1..(Len(orders) + 1) :
        order_view_get(caller, order_id)

AccessPay ==
    \E caller \in AccessCallers, order_id \in 1..(Len(orders) + 1) :
        pay_by(caller, order_id)

AccessStatus ==
    \E caller \in AccessCallers, order_id \in 1..(Len(orders) + 1) :
        payment_status(caller, order_id)

NextAccess == AccessCheckout \/ AccessRead \/ AccessPay \/ AccessStatus

\* the session whose orders (POST) created the guest order
CreatorSession == "session1"

\* one order waiting for its checkout: a guest's or u1's, active or soft-deleted
InitAccess ==
    /\ \E user \in {None, "u1"}, is_active \in BOOLEAN :
          orders = << StoredOrder(user, is_active, "pending") >>
    /\ orderItems = << StoredItem(1) >>
    /\ payments = << >>
    /\ settings = << DefaultSettings >>
    /\ runs = << >>
    /\ clock = 1
    /\ resp = NoResponse
    /\ CatalogAtRest

SpecAccess == InitAccess /\ [][NextAccess]_vars

\* the order is soft-deleted, or it has an owner who is not the caller
Denied(caller, order_id) ==
    \/ ~orders[order_id].is_active
    \/ orders[order_id].user # None /\ orders[order_id].user # request_user(caller)

\* C21: a checkout, an order read, a payment request or a payment status read
\* for an order that is soft-deleted or owned by a user other than the caller
\* answers 404 and leaves every table as it is.
C21_DeniedChangesNothing ==
    [][ \A caller \in AccessCallers, order_id \in 1..Len(orders) :
          (Denied(caller, order_id) /\ request_by(caller, order_id)) =>
              /\ resp'.code = 404
              /\ UNCHANGED <<orders, orderItems, payments, runs, settings>> ]_vars

\* C21 witness: a payment request for the soft-deleted order of u1 was answered
\* 404 and there is no payment.
C21_Witness ==
    /\ orders[1].user = "u1" /\ ~orders[1].is_active
    /\ resp.op = "payment" /\ resp.order = 1 /\ resp.code = 404
    /\ payments = << >>

\* C23: an unauthenticated caller whose session is not the one that created a
\* guest order is answered 404 when it reads the order, submits its checkout,
\* submits a payment for it or reads its payment status.  (Refuted: the views
\* look a guest's order up by user=None alone; no view reads the session.)
C23_OtherSessionRefused ==
    [][ \A caller \in Sessions \ {CreatorSession}, order_id \in 1..Len(orders) :
          (orders[order_id].user = None /\ request_by(caller, order_id)) =>
              resp'.code = 404 ]_vars

(***************************************************************************)
(* The payment status of a guest's accepted order: payments are submitted  *)
(* and settled while the status is read.                                   *)
(***************************************************************************)
StatusPay == pay_by("anon", 1) /\ resp'.code = 200

StatusRead == payment_status("anon", 1)

NextStatus == StatusPay \/ Settle \/ StatusRead

InitStatus ==
    /\ orders = << StoredOrder(None, TRUE, "accepted") >>
    /\ orderItems = << StoredItem(1) >>
    /\ payments = << >>
    /\ settings = << DefaultSettings >>
    /\ runs = << >>
    /\ clock = 1
    /\ resp = NoResponse
    /\ CatalogAtRest

SpecStatus == InitStatus /\ [][NextStatus]_vars

\* C22: after every step each payment has no processed_at exactly when it is
\* pending and an error_message only when it is failed; and a payment_status
\* read answers with the status of the order's latest payment and with an
\* error_message only when that status is failed.
C22_PaymentFieldsAgree ==
    [][ /\ \A p \in 1..Len(payments') :
              /\ payments'[p].processed_at = NoTime <=> payments'[p].status = "pending"
              /\ payments'[p].error_message # None => payments'[p].status = "failed"
        /\ (resp' # resp /\ resp'.op = "payment_status" /\ last_payment(1) # 0) =>
              /\ resp'.body.status = payments[last_payment(1)].status
              /\ resp'.body.error_message # None => resp'.body.status = "failed"
              /\ resp'.body.status = "failed" =>
                    resp'.body.error_message = payments[last_payment(1)].error_message
      ]_vars

\* C22 witness: the first payment settled as success, the second failed in the
\* except branch, and the status read reports failed with the technical error.
C22_Witness ==
    /\ Len(payments) = 2
    /\ payments[1].status = "success" /\ payments[1].error_message = None
    /\ payments[2].status = "failed" /\ payments[2].error_message = TechnicalError
    /\ resp.op = "payment_status"
    /\ resp.body = [status |-> "failed", error_message |-> TechnicalError]

(***************************************************************************)
(* payments/views.py: process_payment called for the same payment by two   *)
(* threads of the pool at the same time, one step per database access.     *)
(***************************************************************************)
\* the payment both calls are about
RacedPayment == 1

\* l.69-83: payment = Payment.objects.get(id=payment_id); return unless pending
process_payment_get(w) ==
    /\ At(w, "idle")
    /\ IF payments[RacedPayment].status = "pending"
       THEN Become(w, [pc |-> "loaded", payment |-> payments[RacedPayment]])
       ELSE Become(w, [pc |-> "returned"])
    /\ UNCHANGED <<orders, orderItems, payments, settings, runs, clock, resp, products, sales, today>>

\* l.85-111: the outcome rule on the object held, processed_at = now, and
\* payment.save(), an UPDATE of every field of the row
process_payment_save(w) ==
    /\ At(w, "loaded")
    /\ LET held == calls[w].payment IN
       \E reason \in DeclineReasons :
          LET saved == IF succeeds(held.number)
                       THEN [held EXCEPT !.status = "success", !.processed_at = clock]
                       ELSE [held EXCEPT !.status = "failed", !.error_message = reason,
                                         !.processed_at = clock]
          IN  /\ payments' = [payments EXCEPT ![RacedPayment] = saved]
              /\ Become(w, [pc |-> IF saved.status = "success" THEN "saved" ELSE "returned",
                            payment |-> saved])
    /\ clock' = clock + 1
    /\ UNCHANGED <<orders, orderItems, settings, runs, resp, products, sales, today>>

\* l.114-121: order = payment.order and the test of its status
process_payment_order(w) ==
    /\ At(w, "saved")
    /\ LET order == orders[calls[w].payment.order] IN
       IF order.status \in {"accepted", "pending"}
       THEN Become(w, [pc |-> "order_loaded", payment |-> calls[w].payment,
                       order |-> [order EXCEPT !.status = "processing"]])
       ELSE Become(w, [pc |-> "returned"])
    /\ UNCHANGED <<orders, orderItems, payments, settings, runs, clock, resp, products, sales, today>>

\* l.122: order.save()
process_payment_order_save(w) ==
    /\ At(w, "order_loaded")
    /\ orders' = [orders EXCEPT ![calls[w].payment.order] = calls[w].order]
    /\ Become(w, [pc |-> "returned"])
    /\ UNCHANGED <<orderItems, payments, settings, runs, clock, resp, products, sales, today>>

NextSettleRace ==
    \E w \in Workers :
        \/ process_payment_get(w)
        \/ process_payment_save(w)
        \/ process_payment_order(w)
        \/ process_payment_order_save(w)

\* an accepted order with one pending payment, whose number settles as success
\* or is declined, and two calls of process_payment about to start
InitSettleRace ==
    /\ orders = << StoredOrder(None, TRUE, "accepted") >>
    /\ orderItems = << StoredItem(1) >>
    /\ \E number \in ScenarioNumbers, payment_type \in {"card", "someone"} :
          payments = << [ order |-> 1, payment_type |-> payment_type, number |-> number,
                          status |-> "pending", error_message |-> None,
                          created_at |-> 1, processed_at |-> NoTime ] >>
    /\ settings = << >>
    /\ runs = << >>
    /\ clock = 2
    /\ resp = NoResponse
    /\ CatalogAtRest

SpecSettleRace == InitSettleRace /\ [][NextSettleRace]_vars

\* C24: when two calls of process_payment for one payment interleave, at most
\* one of them writes the payment: once the payment is success or failed, its
\* status, error_message and processed_at never change.  (Refuted: the test
\* of l.79 and the save of l.111 are separate accesses with no lock between
\* them, so both calls can pass the test and both save.)
C24_TerminalPaymentNeverRewritten ==
    [][ \A p \in 1..Len(payments) :
          payments[p].status # "pending" => payments'[p] = payments[p] ]_vars

(***************************************************************************)
(* catalog/models.py: Sale.save by two writers at the same time, its       *)
(* validation and its write being two database accesses.                   *)
(***************************************************************************)
\* new sales of product 1: active at 500 on day 1, on day MaxDay and on every
\* day, and inactive at 800 on every day
RaceSaleInputs ==
    { NewSale(1, 500, 1, 1, TRUE), NewSale(1, 500, MaxDay, MaxDay, TRUE),
      NewSale(1, 500, 1, MaxDay, TRUE), NewSale(1, 800, 1, MaxDay, FALSE) }

\* Sale.save, l.225: self.full_clean() of a new object; ValidationError ends the save
full_clean(w, sale) ==
    /\ calls[w].pc \in {"idle", "saved", "raised"}
    /\ Len(sales) < MaxSales
    /\ IF clean(0, sale) = "ok"
       THEN Become(w, [pc |-> "save", sale |-> sale])
       ELSE Become(w, Raised(clean(0, sale)))
    /\ UNCHANGED <<orders, orderItems, payments, settings, runs, clock, resp, products, sales, today>>

\* Sale.save, l.226: super().save(), the INSERT
super_save(w) ==
    /\ At(w, "save")
    /\ sales' = Append(sales, calls[w].sale)
    /\ Become(w, [pc |-> "saved", pk |-> Len(sales) + 1])
    /\ UNCHANGED <<orders, orderItems, payments, settings, runs, clock, resp, products, today>>

NextSaleRace ==
    \E w \in Workers :
        \/ \E sale \in RaceSaleInputs : full_clean(w, sale)
        \/ super_save(w)

\* the catalog with no sale, and two writers about to save
InitSaleRace == InitCatalog

SpecSaleRace == InitSaleRace /\ [][NextSaleRace]_vars

\* C25: when two writers save active sales of one product at the same time,
\* the overlap test and the insert of each are one step, so two sales that
\* share a day are never both stored.  (Refuted: full_clean and the INSERT are
\* separate accesses outside any transaction or lock; both writers validate
\* against the table before either has inserted.)
C25_ConcurrentSavesKeepDisjoint ==
    \A i, j \in 1..Len(sales) :
        (i < j /\ sales[i].is_active /\ sales[j].is_active
               /\ sales[i].product = sales[j].product)
            => ~Intersect(sales[i], sales[j])

(***************************************************************************)
(* orders/models.py: the total cached on an Order object.  Every worker    *)
(* holds its own Order object of order 1; line items are created, changed  *)
(* and deleted through one of the objects.                                 *)
(***************************************************************************)
MaxItems == 2

\* no attribute _cached_products_total on the object (a total is never negative)
NoCache == -1

\* Order.objects.get(pk=1): a new object, nothing cached
get_order(w) ==
    /\ At(w, "idle")
    /\ Become(w, [pc |-> "order", order |-> 1, cached |-> NoCache, total |-> NoCache])
    /\ UNCHANGED <<orders, orderItems, payments, settings, runs, clock, resp, products, sales, today>>

\* Order._get_products_total, l.220-229: the aggregate is computed when the
\* object has no cached total, and the cached total is returned
get_products_total(w) ==
    /\ At(w, "order")
    /\ LET cached == IF calls[w].cached = NoCache THEN products_total(calls[w].order).v
                     ELSE calls[w].cached
       IN  Become(w, [calls[w] EXCEPT !.cached = cached, !.total = cached])
    /\ UNCHANGED <<orders, orderItems, payments, settings, runs, clock, resp, products, sales, today>>

\* Order.clear_cache of the object of worker w, l.257-260, called by
\* OrderItem.save (l.286-291) and by the signal receiver (l.298-302) on
\* instance.order, the object the line item is attached to
clear_cache(w) == Become(w, [calls[w] EXCEPT !.cached = NoCache])

\* OrderItem.objects.create(order=order, ...) with the object of worker w
item_create(w, price, count) ==
    /\ At(w, "order")
    /\ Len(orderItems) < MaxItems
    /\ orderItems' = Append(orderItems, [order |-> calls[w].order, product |-> 1,
                                         price |-> price, count |-> count])
    /\ clear_cache(w)
    /\ UNCHANGED <<orders, payments, settings, runs, clock, resp, products, sales, today>>

\* item.count = count; item.save() of an item of order.products.all()
item_save(w, i, count) ==
    /\ At(w, "order")
    /\ orderItems[i].order = calls[w].order
    /\ orderItems' = [orderItems EXCEPT ![i].count = count]
    /\ clear_cache(w)
    /\ UNCHANGED <<orders, payments, settings, runs, clock, resp, products, sales, today>>

\* item.delete() of an item of order.products.all(): the receiver of post_delete
item_delete(w, i) ==
    /\ At(w, "order")
    /\ orderItems[i].order = calls[w].order
    /\ orderItems' = [k \in 1..(Len(orderItems) - 1) |->
                         IF k < i THEN orderItems[k] ELSE orderItems[k + 1]]
    /\ clear_cache(w)
    /\ UNCHANGED <<orders, payments, settings, runs, clock, resp, products, sales, today>>

NextCache ==
    \E w \in Workers :
        \/ get_order(w)
        \/ get_products_total(w)
        \/ \E price \in {500, 1000}, count \in {1, 2} : item_create(w, price, count)
        \/ \E i \in 1..Len(orderItems), count \in {1, 3} : item_save(w, i, count)
        \/ \E i \in 1..Len(orderItems) : item_delete(w, i)

\* a guest order as orders (POST) leaves it, with one line item or none
InitCache ==
    /\ \E items \in { << >>, << Item(1000, 2) >> } :
          /\ orderItems = items
          /\ orders = << [StoredOrder(None, TRUE, "pending") EXCEPT
                            !.totalCost = SumOver(items, 1..Len(items))] >>
    /\ payments = << >>
    /\ settings = << >>
    /\ runs = << >>
    /\ clock = 1
    /\ resp = NoResponse
    /\ CatalogAtRest

SpecCache == InitCache /\ [][NextCache]_vars

\* C26: after a line item of an order is added, changed or removed, the total
\* that any Order object of that order computes next is the sum of price x
\* count over the stored line items: no object keeps a cached total that
\* differs from that sum.  (Refuted: the cache is an attribute of one Python
\* object and only the object attached to the item is cleared.)
C26_NoStaleCachedTotal ==
    \A w \in Workers :
        (calls[w].pc = "order" /\ calls[w].cached # NoCache) =>
            calls[w].cached = LineItemsTotal(orderItems, calls[w].order)

(***************************************************************************)
(* Properties of an order's payments and status over its life.             *)
(***************************************************************************)
\* the payments of order o that are success
SuccessfulPaymentsOf(o) == {p \in PaymentsOf(o) : payments[p].status = "success"}

\* C27: an order never has two payments with status success, whatever the
\* order of payment requests and settlement steps.  (Refuted: while the
\* order is accepted or pending every payment request is taken, and each
\* payment settles by its own number.)
C27_AtMostOneSuccess ==
    \A o \in 1..Len(orders) : Cardinality(SuccessfulPaymentsOf(o)) <= 1

\* C28: once an order is processing, no step of the order and payment handlers
\* takes it back to accepted or pending or changes its totalCost or its
\* deliveryType.  (Refuted: order_view, POST, has no test of the status.)
C28_ProcessingNeverReverts ==
    [][ \A o \in 1..Len(orders) :
          orders[o].status = "processing" =>
              /\ orders'[o].status \notin {"accepted", "pending"}
              /\ orders'[o].totalCost = orders[o].totalCost
              /\ orders'[o].deliveryType = orders[o].deliveryType ]_vars

\* C29: the step of a successful settlement that makes the order processing
\* changes the status of the order and no other field, so what a checkout
\* wrote since settlement read the order is still there.  (Refuted:
\* order.save() writes every field of the object read earlier.)
C29_SettlementWritesStatusOnly ==
    [][ \A o \in 1..Len(orders) :
          (orders[o].status # "processing" /\ orders'[o].status = "processing") =>
              orders'[o] = [orders[o] EXCEPT !.status = "processing"] ]_vars

(***************************************************************************)
(* orders/views.py, orders (POST): two calls at the same time that order   *)
(* the same product.                                                       *)
(***************************************************************************)
\* bodies that order product 1 once or twice
CounterInputs ==
    { << Entry(1, 1) >>, << Entry(1, 2) >>, << Entry(1, 1), Entry(1, 2) >> }

NextCounters ==
    \E w \in Workers :
        \/ \E data \in CounterInputs : orders_create(w, data)
        \/ orders_get_product(w)
        \/ orders_create_item(w)
        \/ orders_add_total(w)
        \/ orders_save_product(w)
        \/ orders_finish(w)

InitCounters == InitBasket

SpecCounters == InitCounters /\ [][NextCounters]_vars

\* the sum of count over the line items with the given keys
RECURSIVE CountOver(_)
CountOver(keys) ==
    IF keys = {} THEN 0
    ELSE LET i == CHOOSE k \in keys : TRUE
         IN  orderItems[i].count + CountOver(keys \ {i})

\* C30: when no call of orders (POST) is in progress, the purchases counter of
\* every product is the sum of the counts of the line items created for it,
\* also after calls that ran at the same time.  (Refuted: product.save()
\* writes purchases_count computed from the value read at l.71.)
C30_NoLostIncrement ==
    (\A w \in Workers : calls[w].pc \in {"idle", "done"}) =>
        \A id \in 1..Len(products) :
            products[id].purchases_count =
                CountOver({i \in 1..Len(orderItems) : orderItems[i].product = id})

====
